---- MODULE Spec2Model ----
(***************************************************************************)
(* A model of the auxiliary scripts of the depth-supervision experiments:  *)
(*   compare_training.py  (Metric Log Reader + Comparator),                *)
(*   monitor_training.py  (Metric Log Reader + Live Monitor),              *)
(*   run_comparison.py    (Run Orchestrator).                              *)
(* Each script is a program of its own and has its own specification       *)
(* (SpecCmp, SpecMon, SpecOrch) over the shared variables; the variables   *)
(* of the programs that do not run stay at their initial values.           *)
(*                                                                         *)
(* Metric values are floats in the code.  The model draws them from a set  *)
(* of whole numbers and keeps quotients as exact fractions <<num, den>>.   *)
(***************************************************************************)
EXTENDS Integers, Sequences, FiniteSets, TLC

VARIABLES
    \* ---- the environment: tensorboard library and the log directories
    tbInstalled,    \* whether `import tensorboard...` succeeds
    dirExists,      \* dirExists[d]: the model directory d exists
    mtime,          \* mtime[d][r]: st_mtime of the event file in run folder r (0: no file)
    scalars,        \* scalars[d][r][tag]: the series recorded in run folder r of d
    nSamples,       \* number of samples recorded so far (bounded by MaxSamples)
    \* ---- compare_training.py
    pcC, weak_data, strong_data, summaryJson, plotPng, outDirMade, stdoutC, raisedC,
    \* ---- monitor_training.py
    pcM, metrics, lastTick, stdoutM,
    \* ---- run_comparison.py
    pathExists, pcO, proc, termRequested, results, interrupted, compareRuns,
    baseMade, stdoutO

envVars  == << tbInstalled, dirExists, mtime, scalars, nSamples >>
cmpVars  == << pcC, weak_data, strong_data, summaryJson, plotPng, outDirMade, stdoutC, raisedC >>
monVars  == << pcM, metrics, lastTick, stdoutM >>
orchVars == << pathExists, pcO, proc, termRequested, results, interrupted, compareRuns,
               baseMade, stdoutO >>
vars     == << envVars, cmpVars, monVars, orchVars >>

----------------------------------------------------------------------------
(* Bounds of the model *)

\* total number of scalar samples the trainers record
MaxSamples == 2

\* the values a recorded sample may have
Values == {0, 8, 10}

\* the two trainer output directories
Dirs == {"weak", "strong"}

\* the folders below a model directory that may hold an event file
RunDirs == {"run_a", "run_b"}

----------------------------------------------------------------------------
(* Metric names, spelled character by character so that str.replace and    *)
(* the `in` substring test are computed, not assumed.                      *)

total_loss_tag   == "train_loss_patches/total_loss"
l1_loss_tag      == "train_loss_patches/l1_loss"
val_l1_tag       == "train/loss_viewpoint - l1_loss"
val_psnr_tag     == "train/loss_viewpoint - psnr"
test_psnr_tag    == "test/loss_viewpoint - psnr"
total_points_tag == "total_points"

\* the tags the trainers of the model record: one analysed and monitored loss,
\* one PSNR only the Comparator analyses, one PSNR only the Monitor shows
LoggedTags == {total_loss_tag, val_psnr_tag, test_psnr_tag}

S_train_prefix ==
    << "t", "r", "a", "i", "n", "_", "l", "o", "s", "s", "_", "p", "a", "t", "c", "h", "e", "s", "/" >>
S_test_prefix ==
    << "t", "e", "s", "t", "/", "l", "o", "s", "s", "_", "v", "i", "e", "w", "p", "o", "i", "n", "t", " ", "-", " " >>
S_train_view_prefix ==
    << "t", "r", "a", "i", "n", "/", "l", "o", "s", "s", "_", "v", "i", "e", "w", "p", "o", "i", "n", "t", " ", "-", " " >>
S_Test        == << "T", "e", "s", "t", " " >>
S_empty       == << >>
S_psnr        == << "p", "s", "n", "r" >>
S_total_loss  == << "t", "o", "t", "a", "l", "_", "l", "o", "s", "s" >>
S_l1_loss     == << "l", "1", "_", "l", "o", "s", "s" >>
S_total_points == << "t", "o", "t", "a", "l", "_", "p", "o", "i", "n", "t", "s" >>

\* the characters of a metric name
Spell(tag) ==
    CASE tag = total_loss_tag   -> S_train_prefix \o S_total_loss
      [] tag = l1_loss_tag      -> S_train_prefix \o S_l1_loss
      [] tag = val_l1_tag       -> S_train_view_prefix \o S_l1_loss
      [] tag = val_psnr_tag     -> S_train_view_prefix \o S_psnr
      [] tag = test_psnr_tag    -> S_test_prefix \o S_psnr
      [] tag = total_points_tag -> S_total_points

\* s[i .. i+Len(pat)-1] = pat
MatchAt(s, i, pat) ==
    /\ i + Len(pat) - 1 <= Len(s)
    /\ \A k \in 1..Len(pat) : s[i + k - 1] = pat[k]

RECURSIVE ReplaceFrom(_, _, _, _)
ReplaceFrom(s, i, old, new) ==
    IF i > Len(s) THEN << >>
    ELSE IF MatchAt(s, i, old) THEN new \o ReplaceFrom(s, i + Len(old), old, new)
    ELSE << s[i] >> \o ReplaceFrom(s, i + 1, old, new)

\* Python's s.replace(old, new) for a non-empty old: every non-overlapping
\* occurrence, left to right
str_replace(s, old, new) == ReplaceFrom(s, 1, old, new)

\* Python's `sub in s` on strings
str_contains(sub, s) == \E i \in 1..(Len(s) + 1) : MatchAt(s, i, sub)

----------------------------------------------------------------------------
(* Arithmetic *)

Abs(n) == IF n < 0 THEN -n ELSE n

RECURSIVE GCD(_, _)
GCD(a, b) == IF b = 0 THEN a ELSE GCD(b, a % b)

\* the exact value of n / d (d # 0) as a reduced fraction with positive denominator
Frac(n, d) ==
    LET g == GCD(Abs(n), Abs(d))
        s == IF d < 0 THEN -1 ELSE 1
    IN  << (s * n) \div g, (s * d) \div g >>

RECURSIVE SumSeq(_)
SumSeq(q) == IF q = << >> THEN 0 ELSE q[1] + SumSeq(Tail(q))

SeqMin(q) == CHOOSE x \in {q[i] : i \in 1..Len(q)} : \A j \in 1..Len(q) : x <= q[j]
SeqMax(q) == CHOOSE x \in {q[i] : i \in 1..Len(q)} : \A j \in 1..Len(q) : x >= q[j]

\* q[-1]
Last(q) == q[Len(q)]

----------------------------------------------------------------------------
(* Python values *)

\* None, and a dict given by the function from its keys to their values
None     == [isNone |-> TRUE, dict |-> << >>]
Dict(f)  == [isNone |-> FALSE, dict |-> f]
EmptyDict == << >>

\* truth value of `x` for x None or a dict
Truthy(x) == ~x.isNone /\ DOMAIN x.dict # {}

\* the result of evaluating an expression: a value, or an exception raised
Ok(v)   == [exc |-> "", val |-> v]
Exc(e)  == [exc |-> e, val |-> EmptyDict]

----------------------------------------------------------------------------
(* The log directories and the trainers that write them (the environment) *)

Sample(st, v) == [step |-> st, value |-> v]

NoScalars == [t \in LoggedTags |-> << >>]

\* model_path.glob("**/events.out.tfevents.*"): the run folders of d holding an
\* event file; a missing directory yields nothing
Glob(d) == IF dirExists[d] THEN {r \in RunDirs : mtime[d][r] > 0} ELSE {}

\* Modification times after the event file of run folder r is written: only
\* their order is kept, as ranks 1..n with n the newest
Touch(m, r) ==
    [o \in RunDirs |->
        IF o = r THEN Cardinality({x \in RunDirs : m[x] > 0} \cup {r})
        ELSE IF m[r] > 0 /\ m[o] > m[r] THEN m[o] - 1
        ELSE m[o]]

\* A trainer records one scalar: SummaryWriter.add_scalar(tag, v, step) into the
\* event file of run folder r of its model directory d
RecordScalar(d, r, tag, v) ==
    /\ nSamples < MaxSamples
    /\ dirExists[d]
    /\ scalars' = [scalars EXCEPT ![d][r][tag] =
                      Append(@, Sample(Len(@) + 1, v))]
    /\ mtime' = [mtime EXCEPT ![d] = Touch(@, r)]
    /\ nSamples' = nSamples + 1
    /\ UNCHANGED << tbInstalled, dirExists >>

InitEnv ==
    /\ tbInstalled \in BOOLEAN
    /\ dirExists \in [Dirs -> BOOLEAN]
    /\ mtime = [d \in Dirs |-> [r \in RunDirs |-> 0]]
    /\ scalars = [d \in Dirs |-> [r \in RunDirs |-> NoScalars]]
    /\ nSamples = 0

----------------------------------------------------------------------------
(* Metric Log Reader of compare_training.py *)

Msg(m, a) == [msg |-> m, arg |-> a]

\* variant of LatestLog: the oldest file is taken
LatestLog_Oldest(d, tb_files) ==
    CHOOSE r \in tb_files : \A o \in tb_files : mtime[d][r] <= mtime[d][o]

\* max(tb_files, key=lambda f: f.stat().st_mtime)
LatestLog(d, tb_files) ==
    CHOOSE r \in tb_files : \A o \in tb_files : mtime[d][r] >= mtime[d][o]

\* EventAccumulator(str(latest_log.parent)); ea.Reload(): the scalar store of the
\* folder that holds latest_log
Reload(d, latest_log) == scalars[d][latest_log]

\* ea.Tags()['scalars']
ScalarTags(ea) == {t \in DOMAIN ea : ea[t] # << >>}

\* ea.Scalars(tag) turned into {'steps': [...], 'values': [...]}
SeriesOf(events) ==
    [steps  |-> [i \in 1..Len(events) |-> events[i].step],
     values |-> [i \in 1..Len(events) |-> events[i].value]]

extract_tensorboard_data(logdir) ==
    IF ~tbInstalled
    THEN [ret |-> None, out |-> << Msg("Please install tensorboard", "") >>]
    ELSE LET tb_files == Glob(logdir) IN
         IF tb_files = {}
         THEN [ret |-> None, out |-> << Msg("No tensorboard files found in", logdir) >>]
         ELSE LET latest_log == LatestLog(logdir, tb_files)
                  ea         == Reload(logdir, latest_log)
                  data       == [tag \in ScalarTags(ea) |-> SeriesOf(ea[tag])]
              IN  [ret |-> Dict(data),
                   out |-> << Msg("Loading tensorboard data from", latest_log) >>]

----------------------------------------------------------------------------
(* Comparator: compare_training.py *)

\* metrics_to_analyze, and the same names in key_metrics of plot_comparison
metrics_to_analyze ==
    << total_loss_tag, l1_loss_tag, val_l1_tag, val_psnr_tag, total_points_tag >>

MetricSet == {metrics_to_analyze[i] : i \in 1..Len(metrics_to_analyze)}

NoFile == [absent |-> TRUE]

\* `data and metric in data`: `metric in data` is evaluated for a truthy data only
HasMetric(data, metric) ==
    IF ~Truthy(data) THEN Ok(FALSE) ELSE Ok(metric \in DOMAIN data.dict)

\* the dict of lines 125-132 / 138-145; std_value is kept as its square, the
\* population variance, which is exact
SummaryOf(values) ==
    LET n == Len(values)
        sm == SumSeq(values)
        sq == SumSeq([i \in 1..n |-> values[i] * values[i]])
    IN  [final_value      |-> Last(values),
         min_value        |-> SeqMin(values),
         max_value        |-> SeqMax(values),
         mean_value       |-> Frac(sm, n),
         std_value_sq     |-> Frac(n * sq - sm * sm, n * n),
         total_iterations |-> n]

\* variant of SideStats: the `if values_w:` test is left out
SideStats_NoEmptyTest(data, metric) ==
    LET h == HasMetric(data, metric) IN
    IF h.exc # "" THEN h
    ELSE IF ~h.val THEN Ok(EmptyDict)
    ELSE LET values == data.dict[metric].values IN
         IF values = << >> THEN Exc("IndexError") ELSE Ok(SummaryOf(values))

\* lines 122-132 and 135-145: one side's entry for one metric
SideStats(data, metric) ==
    LET h == HasMetric(data, metric) IN
    IF h.exc # "" THEN h
    ELSE IF ~h.val THEN Ok(EmptyDict)
    ELSE LET values == data.dict[metric].values IN
         IF values # << >> THEN Ok(SummaryOf(values)) ELSE Ok(EmptyDict)

\* variant of FinalImprovement: the operands are exchanged
FinalImprovement_WeakMinusStrong(values_w, values_s) == Last(values_w) - Last(values_s)

\* line 153
FinalImprovement(values_w, values_s) == Last(values_s) - Last(values_w)

\* line 154: (final_improvement / values_w[-1]) * 100 if values_w[-1] != 0 else 0
RelativeImprovement(final_improvement, values_w) ==
    IF Last(values_w) # 0
    THEN Ok(Frac(final_improvement * 100, Last(values_w)))
    ELSE Ok(Frac(0, 1))

\* variant of StrongBetter: lower is better for every metric
StrongBetter_AlwaysLower(final_improvement, metric) == final_improvement < 0

\* line 159
StrongBetter(final_improvement, metric) ==
    IF str_contains(S_psnr, Spell(metric))
    THEN final_improvement > 0
    ELSE final_improvement < 0

\* lines 148-160: the comparison entry for one metric
ComparisonStats(weak, strong, metric) ==
    LET hw == HasMetric(weak, metric) IN
    IF hw.exc # "" THEN hw
    ELSE IF ~hw.val THEN Ok(EmptyDict)
    ELSE LET hs == HasMetric(strong, metric) IN
         IF hs.exc # "" THEN hs
         ELSE IF ~hs.val THEN Ok(EmptyDict)
         ELSE LET values_w == weak.dict[metric].values
                  values_s == strong.dict[metric].values
              IN  IF values_w # << >> /\ values_s # << >>
                  THEN LET final_improvement == FinalImprovement(values_w, values_s)
                           relative == RelativeImprovement(final_improvement, values_w)
                       IN  IF relative.exc # "" THEN relative
                           ELSE Ok([absolute_improvement |-> final_improvement,
                                    relative_improvement_percent |-> relative.val,
                                    strong_better |->
                                        StrongBetter(final_improvement, metric)])
                  ELSE Ok(EmptyDict)

\* lines 166-179: the metrics whose block is printed, in order
PrintedSummary(stats) ==
    SelectSeq(metrics_to_analyze,
              LAMBDA m : m \in DOMAIN stats.comparison /\ stats.comparison[m] # EmptyDict)

\* compute_statistics(weak_data, strong_data, output_dir): the stats it writes to
\* comparison_summary.json and the metrics it prints, or the exception it raises
compute_statistics(weak, strong) ==
    LET w == [m \in MetricSet |-> SideStats(weak, m)]
        s == [m \in MetricSet |-> SideStats(strong, m)]
        c == [m \in MetricSet |-> ComparisonStats(weak, strong, m)]
        failed == {r \in {w[m] : m \in MetricSet} \cup {s[m] : m \in MetricSet}
                         \cup {c[m] : m \in MetricSet} : r.exc # ""}
    IN  IF failed # {}
        THEN Exc((CHOOSE r \in failed : TRUE).exc)
        ELSE LET stats == [weak_supervision   |-> [m \in MetricSet |-> w[m].val],
                           strong_supervision |-> [m \in MetricSet |-> s[m].val],
                           comparison         |-> [m \in MetricSet |-> c[m].val]]
             IN  Ok([stats |-> stats, printed |-> PrintedSummary(stats)])

\* plot_comparison: the lines drawn, as <<metric, side>> (lines 66-79)
plot_comparison(weak, strong) ==
    LET hw == [m \in MetricSet |-> HasMetric(weak, m)]
        hs == [m \in MetricSet |-> HasMetric(strong, m)]
        failed == {r \in {hw[m] : m \in MetricSet} \cup {hs[m] : m \in MetricSet} :
                   r.exc # ""}
    IN  IF failed # {}
        THEN Exc((CHOOSE r \in failed : TRUE).exc)
        ELSE Ok([lines |-> {<< m, "weak" >> : m \in {x \in MetricSet : hw[x].val}}
                           \cup {<< m, "strong" >> : m \in {x \in MetricSet : hs[x].val}}])

\* the Comparator before its first statement (at "off" it is not run)
InitComparator(at) ==
    /\ pcC = at
    /\ weak_data = None
    /\ strong_data = None
    /\ summaryJson = NoFile
    /\ plotPng = NoFile
    /\ outDirMade = FALSE
    /\ stdoutC = << >>
    /\ raisedC = ""

\* main, lines 191-193
CmpExtract ==
    /\ pcC = "main"
    /\ LET w == extract_tensorboard_data("weak")
           s == extract_tensorboard_data("strong")
       IN  /\ weak_data' = w.ret
           /\ strong_data' = s.ret
           /\ stdoutC' = stdoutC \o << Msg("Extracting tensorboard data...", "") >>
                                 \o w.out \o s.out
    /\ pcC' = "extracted"
    /\ UNCHANGED << summaryJson, plotPng, outDirMade, raisedC >>
    /\ UNCHANGED << envVars, monVars, orchVars >>

\* variant of CmpNoData: the notice is not printed
CmpNoData_Silent ==
    /\ pcC = "extracted"
    /\ ~Truthy(weak_data) /\ ~Truthy(strong_data)
    /\ pcC' = "done"
    /\ UNCHANGED << weak_data, strong_data, summaryJson, plotPng, outDirMade, raisedC,
                    stdoutC >>
    /\ UNCHANGED << envVars, monVars, orchVars >>

\* main, lines 195-197
CmpNoData ==
    /\ pcC = "extracted"
    /\ ~Truthy(weak_data) /\ ~Truthy(strong_data)
    /\ stdoutC' = Append(stdoutC,
                         Msg("No tensorboard data found in either directory!", ""))
    /\ pcC' = "done"
    /\ UNCHANGED << weak_data, strong_data, summaryJson, plotPng, outDirMade, raisedC >>
    /\ UNCHANGED << envVars, monVars, orchVars >>

\* main, lines 199-203
CmpPlot ==
    /\ pcC = "extracted"
    /\ ~(~Truthy(weak_data) /\ ~Truthy(strong_data))
    /\ outDirMade' = TRUE
    /\ LET fig == plot_comparison(weak_data, strong_data) IN
       IF fig.exc # ""
       THEN /\ raisedC' = fig.exc
            /\ pcC' = "raised"
            /\ stdoutC' = Append(stdoutC, Msg("Generating comparison plots...", ""))
            /\ UNCHANGED plotPng
       ELSE /\ plotPng' = fig.val
            /\ pcC' = "plotted"
            /\ stdoutC' = stdoutC \o << Msg("Generating comparison plots...", ""),
                                        Msg("Comparison plot saved to", "") >>
            /\ UNCHANGED raisedC
    /\ UNCHANGED << weak_data, strong_data, summaryJson >>
    /\ UNCHANGED << envVars, monVars, orchVars >>

\* main, lines 205-208, and compute_statistics called on its own
CmpStats ==
    /\ pcC \in {"plotted", "called"}
    /\ LET r == compute_statistics(weak_data, strong_data)
           head == IF pcC = "plotted" THEN << Msg("Computing statistics...", "") >>
                   ELSE << >>
           foot == IF pcC = "plotted" THEN << Msg("Comparison complete!", "") >>
                   ELSE << >>
       IN  IF r.exc # ""
           THEN /\ raisedC' = r.exc
                /\ pcC' = "raised"
                /\ stdoutC' = stdoutC \o head
                /\ UNCHANGED summaryJson
           ELSE /\ summaryJson' = r.val.stats
                /\ stdoutC' = stdoutC \o head
                                 \o << Msg("TRAINING COMPARISON SUMMARY", "") >>
                                 \o [i \in 1..Len(r.val.printed) |->
                                        Msg("summary of", r.val.printed[i])]
                                 \o << Msg("Detailed statistics saved to", "") >>
                                 \o foot
                /\ pcC' = IF pcC = "plotted" THEN "done" ELSE "returned"
                /\ UNCHANGED raisedC
    /\ UNCHANGED << weak_data, strong_data, plotPng, outDirMade >>
    /\ UNCHANGED << envVars, monVars, orchVars >>

\* the values and the series a caller may hand to compute_statistics directly:
\* every short series for the loss, a few for the PSNR
ArgValues == Values \cup {5, 20, 25}

ArgSeries ==
    (total_loss_tag :> ({<< >>} \cup {<< v >> : v \in ArgValues}
                               \cup {p \in Values \X Values : p[1] # p[2]}))
    @@ (val_psnr_tag :> {<< >>, << 20 >>, << 25 >>})

ArgTags == DOMAIN ArgSeries

ArgSnapshots ==
    {None} \cup
    {Dict([t \in K |-> [steps |-> [i \in 1..Len(f[t]) |-> i], values |-> f[t]]]) :
        K \in SUBSET ArgTags,
        f \in {g \in [ArgTags -> UNION {ArgSeries[t] : t \in ArgTags}] :
                  \A t \in ArgTags : g[t] \in ArgSeries[t]}}

\* compute_statistics called with snapshots of the caller's own, into an existing
\* output directory
CmpCallStatistics ==
    /\ pcC = "main"
    /\ nSamples = 0 /\ tbInstalled /\ \A d \in Dirs : dirExists[d]
    /\ \E w \in ArgSnapshots, s \in ArgSnapshots :
          /\ weak_data' = w
          /\ strong_data' = s
    /\ outDirMade' = TRUE
    /\ pcC' = "called"
    /\ UNCHANGED << summaryJson, plotPng, stdoutC, raisedC >>
    /\ UNCHANGED << envVars, monVars, orchVars >>

\* the trainers write their logs before the comparison starts
CmpTrainerWrites ==
    /\ pcC = "main"
    /\ \E d \in Dirs, r \in RunDirs, tag \in LoggedTags, v \in Values :
          RecordScalar(d, r, tag, v)
    /\ UNCHANGED << cmpVars, monVars, orchVars >>

----------------------------------------------------------------------------
(* Live Monitor: monitor_training.py *)

\* the directory given as model_dir
model_dir == "weak"

\* the tags of lines 30-31, in order
monitor_tags ==
    << total_loss_tag, l1_loss_tag, test_psnr_tag, total_points_tag >>

\* get_latest_metrics, lines 33-39: the entry of one tag
LatestOf(scalar_events) ==
    [latest_step  |-> Last(scalar_events).step,
     latest_value |-> Last(scalar_events).value,
     total_points |-> Len(scalar_events)]

\* the tags of lines 30-34 that get an entry
ReportedTags(ea) ==
    {monitor_tags[i] : i \in 1..Len(monitor_tags)} \cap ScalarTags(ea)

\* get_latest_metrics(model_dir)
get_latest_metrics(dir) ==
    IF ~tbInstalled THEN None
    ELSE LET tb_files == Glob(dir) IN
         IF tb_files # {}
         THEN LET latest_log == LatestLog(dir, tb_files)
                  ea         == Reload(dir, latest_log)
              IN  Dict([tag \in ReportedTags(ea) |-> LatestOf(ea[tag])])
         ELSE None

\* width of the name column, `{display_name:20s}`
NameWidth == 20

\* f"{s:20s}": s padded with blanks on the right to the column width
PadRight(s) ==
    IF Len(s) >= NameWidth THEN s
    ELSE s \o [i \in 1..(NameWidth - Len(s)) |-> " "]

\* variant of display_name: the second replace is left out
display_name_NoTest(metric_name) ==
    str_replace(Spell(metric_name), S_train_prefix, S_empty)

\* line 64
display_name(metric_name) ==
    str_replace(str_replace(Spell(metric_name), S_train_prefix, S_empty),
                S_test_prefix, S_Test)

\* lines 63-65: one line per entry of metrics, in insertion order; a whole value
\* printed with six decimals is the value itself
MetricLines(m) ==
    LET shown == SelectSeq(monitor_tags, LAMBDA t : t \in DOMAIN m.dict)
    IN  [i \in 1..Len(shown) |->
            [name  |-> PadRight(display_name(shown[i])),
             value |-> m.dict[shown[i]].latest_value,
             iter  |-> m.dict[shown[i]].latest_step]]

\* lines 58-69: what one tick prints
TickOutput(m) ==
    IF Truthy(m)
    THEN [kind |-> "metrics", lines |-> MetricLines(m)]
    ELSE [kind |-> "notice", lines |-> << >>]

NoTick == [kind |-> "none", lines |-> << >>]

\* the Monitor before its first statement (at "off" it is not run)
InitMonitor(at) ==
    /\ pcM = at
    /\ metrics = None
    /\ lastTick = NoTick
    /\ stdoutM = << >>

\* main, lines 83-87
MonMain ==
    /\ pcM = "main"
    /\ IF ~dirExists[model_dir]
       THEN /\ stdoutM' = Append(stdoutM, "Model directory does not exist")
            /\ pcM' = "returned"
       ELSE /\ pcM' = "banner"
            /\ UNCHANGED stdoutM
    /\ UNCHANGED << metrics, lastTick >>
    /\ UNCHANGED << envVars, cmpVars, orchVars >>

\* monitor_training, lines 50-54
MonBanner ==
    /\ pcM = "banner"
    /\ stdoutM' = Append(stdoutM, "Press Ctrl+C to stop monitoring")
    /\ pcM' = "poll"
    /\ UNCHANGED << metrics, lastTick >>
    /\ UNCHANGED << envVars, cmpVars, orchVars >>

\* one pass of the loop body up to the sleep, lines 56-69
MonPoll ==
    /\ pcM = "poll"
    /\ LET m == get_latest_metrics(model_dir) IN
       /\ metrics' = m
       /\ lastTick' = TickOutput(m)
    /\ pcM' = "sleep"
    /\ UNCHANGED stdoutM
    /\ UNCHANGED << envVars, cmpVars, orchVars >>

\* variant of MonWake: the loop ends once metrics have been found
MonWake_Stop ==
    /\ pcM = "sleep"
    /\ pcM' = IF Truthy(metrics) THEN "returned" ELSE "poll"
    /\ UNCHANGED << metrics, lastTick, stdoutM >>
    /\ UNCHANGED << envVars, cmpVars, orchVars >>

\* time.sleep(refresh_interval) returns, line 71, and the loop goes round
MonWake ==
    /\ pcM = "sleep"
    /\ pcM' = "poll"
    /\ UNCHANGED << metrics, lastTick, stdoutM >>
    /\ UNCHANGED << envVars, cmpVars, orchVars >>

\* KeyboardInterrupt: caught at lines 73-74 inside the try, uncaught before it
MonInterrupt ==
    /\ pcM \in {"main", "banner", "poll", "sleep"}
    /\ IF pcM \in {"poll", "sleep"}
       THEN /\ stdoutM' = Append(stdoutM, "Monitoring stopped by user.")
            /\ pcM' = "stopped"
       ELSE /\ pcM' = "crashed"
            /\ UNCHANGED stdoutM
    /\ UNCHANGED << metrics, lastTick >>
    /\ UNCHANGED << envVars, cmpVars, orchVars >>

\* the trainer of the monitored directory writes while the monitor runs
MonTrainerWrites ==
    /\ pcM \in {"main", "banner", "poll", "sleep"}
    /\ \E r \in RunDirs, tag \in LoggedTags, v \in Values :
          RecordScalar(model_dir, r, tag, v)
    /\ UNCHANGED << cmpVars, monVars, orchVars >>

----------------------------------------------------------------------------
(* Run Orchestrator: run_comparison.py *)

Children == {"weak", "strong"}

\* the exit statuses a trainer may end with on its own
ExitCodes == {0, 1}

\* the exit status of a child ended by SIGTERM
SigTerm == -15

InputPaths == {"scene", "depth_images", "gt_depth"}

\* output_base, and Path's `/`
output_base == << "comparison_training" >>

PathJoin(base, name) == Append(base, name)

weak_output   == PathJoin(output_base, "weak_supervision")
strong_output == PathJoin(output_base, "strong_supervision")

\* the -m argument of weak_cmd and of strong_cmd, lines 35-58
ModelPathOf(c) == IF c = "weak" THEN weak_output ELSE strong_output

\* comparison_cmd, lines 93-98
comparison_cmd ==
    [weak   |-> weak_output,
     strong |-> strong_output,
     output |-> PathJoin(output_base, "comparison_results")]

NoResult == [waited |-> FALSE, code |-> 0]
Result(code) == [waited |-> TRUE, code |-> code]

Unstarted == [state |-> "unstarted", code |-> 0, m |-> << >>]

\* the Orchestrator before its first statement (at "off" it is not run)
InitOrchestrator(at) ==
    /\ pcO = at
    /\ proc = [c \in Children |-> Unstarted]
    /\ termRequested = [c \in Children |-> FALSE]
    /\ results = [c \in Children |-> NoResult]
    /\ interrupted = FALSE
    /\ compareRuns = << >>
    /\ baseMade = FALSE
    /\ stdoutO = << >>

\* variant of OrchMain: the check of gt_depth is left out
OrchMain_NoGtCheck ==
    /\ pcO = "main"
    /\ IF ~pathExists["scene"]
       THEN /\ stdoutO' = Append(stdoutO, "Scene path does not exist")
            /\ pcO' = "returned"
       ELSE IF ~pathExists["depth_images"]
       THEN /\ stdoutO' = Append(stdoutO, "Depth images path does not exist")
            /\ pcO' = "returned"
       ELSE /\ pcO' = "setup"
            /\ UNCHANGED stdoutO
    /\ UNCHANGED << pathExists, proc, termRequested, results, interrupted, compareRuns,
                    baseMade >>
    /\ UNCHANGED << envVars, cmpVars, monVars >>

\* main, lines 113-128: the three path checks
OrchMain ==
    /\ pcO = "main"
    /\ IF ~pathExists["scene"]
       THEN /\ stdoutO' = Append(stdoutO, "Scene path does not exist")
            /\ pcO' = "returned"
       ELSE IF ~pathExists["depth_images"]
       THEN /\ stdoutO' = Append(stdoutO, "Depth images path does not exist")
            /\ pcO' = "returned"
       ELSE IF ~pathExists["gt_depth"]
       THEN /\ stdoutO' = Append(stdoutO, "GT depth path does not exist")
            /\ pcO' = "returned"
       ELSE /\ pcO' = "setup"
            /\ UNCHANGED stdoutO
    /\ UNCHANGED << pathExists, proc, termRequested, results, interrupted, compareRuns,
                    baseMade >>
    /\ UNCHANGED << envVars, cmpVars, monVars >>

\* run_training_comparison, lines 16-62: the output directory and the banner
OrchSetup ==
    /\ pcO = "setup"
    /\ baseMade' = TRUE
    /\ stdoutO' = Append(stdoutO, "STARTING COMPARATIVE TRAINING")
    /\ pcO' = "popen_weak"
    /\ UNCHANGED << pathExists, proc, termRequested, results, interrupted, compareRuns >>
    /\ UNCHANGED << envVars, cmpVars, monVars >>

\* line 63: weak_process = subprocess.Popen(weak_cmd)
OrchPopenWeak ==
    /\ pcO = "popen_weak"
    /\ proc' = [proc EXCEPT !["weak"] =
                   [state |-> "running", code |-> 0, m |-> ModelPathOf("weak")]]
    /\ pcO' = "popen_strong"
    /\ UNCHANGED << pathExists, termRequested, results, interrupted, compareRuns,
                    baseMade, stdoutO >>
    /\ UNCHANGED << envVars, cmpVars, monVars >>

\* lines 65-68: strong_process = subprocess.Popen(strong_cmd)
OrchPopenStrong ==
    /\ pcO = "popen_strong"
    /\ proc' = [proc EXCEPT !["strong"] =
                   [state |-> "running", code |-> 0, m |-> ModelPathOf("strong")]]
    /\ pcO' = "announce"
    /\ UNCHANGED << pathExists, termRequested, results, interrupted, compareRuns,
                    baseMade, stdoutO >>
    /\ UNCHANGED << envVars, cmpVars, monVars >>

\* lines 70-82: the PIDs and the monitoring hints, up to the try
OrchAnnounce ==
    /\ pcO = "announce"
    /\ stdoutO' = Append(stdoutO, "BOTH TRAINING PROCESSES STARTED")
    /\ pcO' = "wait_weak"
    /\ UNCHANGED << pathExists, proc, termRequested, results, interrupted, compareRuns,
                    baseMade >>
    /\ UNCHANGED << envVars, cmpVars, monVars >>

\* line 84: weak_result = weak_process.wait()
OrchWaitWeak ==
    /\ pcO = "wait_weak"
    /\ proc["weak"].state = "exited"
    /\ results' = [results EXCEPT !["weak"] = Result(proc["weak"].code)]
    /\ pcO' = "wait_strong"
    /\ UNCHANGED << pathExists, proc, termRequested, interrupted, compareRuns,
                    baseMade, stdoutO >>
    /\ UNCHANGED << envVars, cmpVars, monVars >>

\* line 85: strong_result = strong_process.wait()
OrchWaitStrong ==
    /\ pcO = "wait_strong"
    /\ proc["strong"].state = "exited"
    /\ results' = [results EXCEPT !["strong"] = Result(proc["strong"].code)]
    /\ pcO' = "report"
    /\ UNCHANGED << pathExists, proc, termRequested, interrupted, compareRuns,
                    baseMade, stdoutO >>
    /\ UNCHANGED << envVars, cmpVars, monVars >>

\* variant of OrchCompare: the Comparator is started only if both trainers succeeded
OrchCompare_OnlyOnSuccess ==
    /\ pcO = "compare"
    /\ IF results["weak"].code = 0 /\ results["strong"].code = 0
       THEN /\ compareRuns' = Append(compareRuns, comparison_cmd)
            /\ pcO' = "compare_wait"
       ELSE /\ pcO' = "returned"
            /\ UNCHANGED compareRuns
    /\ UNCHANGED << pathExists, proc, termRequested, results, interrupted, baseMade,
                    stdoutO >>
    /\ UNCHANGED << envVars, cmpVars, monVars >>

\* lines 88-89: the line that reports the exit code of one trainer
ExitCodeLine(c, code) ==
    (IF c = "weak" THEN "Weak supervision exit code: "
                   ELSE "Strong supervision exit code: ") \o ToString(code)

\* lines 87-92: the exit codes of both trainers are printed
OrchReport ==
    /\ pcO = "report"
    /\ stdoutO' = stdoutO \o << "Training completed!",
                                ExitCodeLine("weak", results["weak"].code),
                                ExitCodeLine("strong", results["strong"].code),
                                "Running automatic comparison..." >>
    /\ pcO' = "compare"
    /\ UNCHANGED << pathExists, proc, termRequested, results, interrupted, compareRuns,
                    baseMade >>
    /\ UNCHANGED << envVars, cmpVars, monVars >>

\* lines 93-99: the Comparator is started on the two output directories
OrchCompare ==
    /\ pcO = "compare"
    /\ compareRuns' = Append(compareRuns, comparison_cmd)
    /\ pcO' = "compare_wait"
    /\ UNCHANGED << pathExists, proc, termRequested, results, interrupted, baseMade,
                    stdoutO >>
    /\ UNCHANGED << envVars, cmpVars, monVars >>

\* line 99: subprocess.run returns when the Comparator has ended
OrchCompareDone ==
    /\ pcO = "compare_wait"
    /\ pcO' = "returned"
    /\ UNCHANGED << pathExists, proc, termRequested, results, interrupted, compareRuns,
                    baseMade, stdoutO >>
    /\ UNCHANGED << envVars, cmpVars, monVars >>

\* the statements of the try block, lines 82-99
TryBlock == {"wait_weak", "wait_strong", "report", "compare", "compare_wait"}

\* the statements before it at which the orchestrator can be interrupted
BeforeTry == {"main", "setup", "popen_weak", "popen_strong", "announce"}

\* variant of OrchInterrupt: an interruption that arrives during a wait is noted
\* and the wait goes on
OrchInterrupt_WaitGoesOn ==
    /\ ~interrupted
    /\ pcO \in TryBlock \cup BeforeTry
    /\ interrupted' = TRUE
    /\ pcO' = IF pcO \in {"wait_weak", "wait_strong"} THEN pcO
              ELSE IF pcO \in TryBlock THEN "except" ELSE "crashed"
    /\ UNCHANGED << pathExists, proc, termRequested, results, compareRuns, baseMade,
                    stdoutO >>
    /\ UNCHANGED << envVars, cmpVars, monVars >>

\* KeyboardInterrupt arrives: the handler of line 101 takes it inside the try, and
\* nothing takes it elsewhere
OrchInterrupt ==
    /\ ~interrupted
    /\ pcO \in TryBlock \cup BeforeTry
    /\ interrupted' = TRUE
    /\ pcO' = IF pcO \in TryBlock THEN "except" ELSE "crashed"
    /\ UNCHANGED << pathExists, proc, termRequested, results, compareRuns, baseMade,
                    stdoutO >>
    /\ UNCHANGED << envVars, cmpVars, monVars >>

\* lines 101-104
OrchExcept ==
    /\ pcO = "except"
    /\ stdoutO' = Append(stdoutO, "Training interrupted by user.")
    /\ termRequested' = [c \in Children |-> TRUE]
    /\ pcO' = "returned"
    /\ UNCHANGED << pathExists, proc, results, interrupted, compareRuns, baseMade >>
    /\ UNCHANGED << envVars, cmpVars, monVars >>

\* a trainer process ends: on its own, or by the SIGTERM of terminate()
ChildExit(c, code) ==
    /\ proc[c].state = "running"
    /\ \/ code \in ExitCodes
       \/ code = SigTerm /\ termRequested[c]
    /\ proc' = [proc EXCEPT ![c].state = "exited", ![c].code = code]
    /\ UNCHANGED << pathExists, pcO, termRequested, results, interrupted, compareRuns,
                    baseMade, stdoutO >>
    /\ UNCHANGED << envVars, cmpVars, monVars >>

----------------------------------------------------------------------------
(* The three programs *)

\* compare_training.py run on the two trainer output directories
InitCmp ==
    /\ InitEnv
    /\ InitComparator("main")
    /\ InitMonitor("off")
    /\ InitOrchestrator("off")
    /\ pathExists = [p \in InputPaths |-> TRUE]

NextCmp ==
    \/ CmpTrainerWrites
    \/ CmpExtract
    \/ CmpNoData
    \/ CmpPlot
    \/ CmpStats
    \/ CmpCallStatistics

SpecCmp == InitCmp /\ [][NextCmp]_vars

\* monitor_training.py run on model_dir
InitMon ==
    /\ InitEnv
    /\ dirExists["strong"] = FALSE
    /\ InitComparator("off")
    /\ InitMonitor("main")
    /\ InitOrchestrator("off")
    /\ pathExists = [p \in InputPaths |-> TRUE]

NextMon ==
    \/ MonTrainerWrites
    \/ MonMain
    \/ MonBanner
    \/ MonPoll
    \/ MonWake
    \/ MonInterrupt

SpecMon == InitMon /\ [][NextMon]_vars

\* run_comparison.py; the log directories play no part in it
InitOrch ==
    /\ InitEnv
    /\ tbInstalled /\ \A d \in Dirs : dirExists[d]
    /\ InitComparator("off")
    /\ InitMonitor("off")
    /\ InitOrchestrator("main")
    /\ pathExists \in [InputPaths -> BOOLEAN]

NextOrch ==
    \/ OrchMain
    \/ OrchSetup
    \/ OrchPopenWeak
    \/ OrchPopenStrong
    \/ OrchAnnounce
    \/ OrchWaitWeak
    \/ OrchWaitStrong
    \/ OrchReport
    \/ OrchCompare
    \/ OrchCompareDone
    \/ OrchInterrupt
    \/ OrchExcept
    \/ \E c \in Children, code \in ExitCodes \cup {SigTerm} : ChildExit(c, code)

SpecOrch == InitOrch /\ [][NextOrch]_vars

\* both readers: compare_training.py and monitor_training.py
InitReaders == InitCmp \/ InitMon

NextReaders == NextCmp \/ NextMon

SpecReaders == InitReaders /\ [][NextReaders]_vars

----------------------------------------------------------------------------
(* Run Orchestrator: claims *)

Started(c) == proc[c].state # "unstarted"

OrchEnded == pcO \in {"returned", "crashed"}

AllPathsExist == \A p \in InputPaths : pathExists[p]

\* C1: whenever the interruption arrives after a child trainer has been started,
\* at any point of the launch / wait / compare sequence, termination is requested
\* for both children: an interrupted run that has started a child ends with
\* terminate() called on the weak and on the strong process.
C1_InterruptTerminatesBoth ==
    (interrupted /\ OrchEnded /\ \E c \in Children : Started(c))
        => \A c \in Children : termRequested[c]

\* C2: both trainers are started before either is waited on, the strong launch
\* does not wait for the weak process, and a run that is not interrupted invokes
\* the Comparator exactly once, after both children have ended, whatever their
\* exit statuses, on <base>/weak_supervision and <base>/strong_supervision.
C2_CompareOnceAfterBoth ==
    /\ (\E c \in Children : results[c].waited) => \A c \in Children : Started(c)
    /\ pcO = "popen_strong" => ENABLED OrchPopenStrong
    /\ Len(compareRuns) <= 1
    /\ compareRuns # << >> =>
          /\ \A c \in Children :
                /\ proc[c].state = "exited"
                /\ results[c] = Result(proc[c].code)
          /\ compareRuns[1].weak = << "comparison_training", "weak_supervision" >>
          /\ compareRuns[1].strong = << "comparison_training", "strong_supervision" >>
          /\ compareRuns[1].weak = proc["weak"].m
          /\ compareRuns[1].strong = proc["strong"].m
    /\ (pcO = "returned" /\ ~interrupted /\ AllPathsExist) => Len(compareRuns) = 1
    /\ (pcO = "compare_wait" /\ ~interrupted) =>
          \A c \in Children : results[c].code \in ExitCodes

C2_Witness ==
    /\ pcO = "returned" /\ ~interrupted
    /\ Len(compareRuns) = 1
    /\ results["weak"] = Result(1)
    /\ results["strong"] = Result(0)

\* C3: if one of the three input paths does not exist, the run ends with the
\* message for the first missing path and never starts a trainer, never starts the
\* Comparator and never creates the output directory; subprocesses are started
\* only when all three paths exist.
C3_MissingPathAborts ==
    /\ ~AllPathsExist =>
          /\ \A c \in Children : ~Started(c)
          /\ compareRuns = << >>
          /\ ~baseMade
          /\ pcO \in {"main", "returned", "crashed"}
    /\ (~AllPathsExist /\ pcO = "returned") =>
          stdoutO = << IF ~pathExists["scene"] THEN "Scene path does not exist"
                       ELSE IF ~pathExists["depth_images"]
                            THEN "Depth images path does not exist"
                       ELSE "GT depth path does not exist" >>
    /\ ((\E c \in Children : Started(c)) \/ compareRuns # << >> \/ baseMade)
          => AllPathsExist

C3_Witness ==
    /\ pcO = "returned"
    /\ pathExists["scene"] /\ pathExists["depth_images"] /\ ~pathExists["gt_depth"]
    /\ stdoutO = << "GT depth path does not exist" >>
    /\ \A c \in Children : ~Started(c)

----------------------------------------------------------------------------
(* Comparator: claims *)

NoDataNotice == Msg("No tensorboard data found in either directory!", "")

TheFiveMetrics ==
    {"train_loss_patches/total_loss", "train_loss_patches/l1_loss",
     "train/loss_viewpoint - l1_loss", "train/loss_viewpoint - psnr", "total_points"}

\* the comparison document all of whose entries are empty
EmptyDocument ==
    [weak_supervision   |-> [m \in TheFiveMetrics |-> << >>],
     strong_supervision |-> [m \in TheFiveMetrics |-> << >>],
     comparison         |-> [m \in TheFiveMetrics |-> << >>]]

Printed(m) == \E i \in 1..Len(stdoutC) : stdoutC[i] = m

BothSidesNoData == ~Truthy(weak_data) /\ ~Truthy(strong_data)

\* C4 as claimed: when the reader yields no data for both directories, the
\* comparison run completes without raising, prints the "no data" notice, produces
\* no plot and produces an empty comparison document.
C4_NoDataEmptyDocument ==
    (pcC = "done" /\ BothSidesNoData) =>
        /\ raisedC = ""
        /\ Printed(NoDataNotice)
        /\ plotPng = NoFile
        /\ summaryJson = EmptyDocument

\* C4 as amended: when the reader yields no data for both directories, the
\* comparison run completes without raising, its last output is the "no data"
\* notice, and it returns before the output directory is created: no plot and no
\* comparison document is written.  (compute_statistics called on its own with no
\* data on either side is what writes a document whose entries are all empty.)
C4_NoDataNoDocument ==
    /\ BothSidesNoData => pcC # "raised" /\ raisedC = ""
    /\ (pcC = "extracted" /\ BothSidesNoData) => ENABLED CmpNoData /\ ~ENABLED CmpPlot
    /\ (pcC = "done" /\ BothSidesNoData) =>
          /\ Last(stdoutC) = NoDataNotice
          /\ plotPng = NoFile
          /\ summaryJson = NoFile
          /\ ~outDirMade
    /\ (pcC = "returned" /\ BothSidesNoData) =>
          /\ summaryJson = EmptyDocument
          /\ plotPng = NoFile
          /\ ~\E m \in TheFiveMetrics : Printed(Msg("summary of", m))

C4_Witness ==
    /\ pcC = "done"
    /\ weak_data = None /\ strong_data = None
    /\ Last(stdoutC) = NoDataNotice
    /\ summaryJson = NoFile

\* a side has a non-empty series for the metric
HasSeries(data, m) ==
    /\ ~data.isNone
    /\ m \in DOMAIN data.dict
    /\ Len(data.dict[m].values) > 0

FinalOf(data, m) == data.dict[m].values[Len(data.dict[m].values)]

\* C5: for each of the five metric names, a side's summary is populated exactly
\* when that side has a non-empty series for the metric, the comparison entry is
\* populated exactly when both sides have one, the printed summary has a block for
\* exactly the metrics with a populated comparison, and nothing is raised.
C5_PopulatedIffSeries ==
    /\ pcC # "raised" /\ raisedC = ""
    /\ summaryJson # NoFile =>
          /\ DOMAIN summaryJson.weak_supervision = TheFiveMetrics
          /\ DOMAIN summaryJson.strong_supervision = TheFiveMetrics
          /\ DOMAIN summaryJson.comparison = TheFiveMetrics
          /\ \A m \in TheFiveMetrics :
                /\ summaryJson.weak_supervision[m] # << >> <=> HasSeries(weak_data, m)
                /\ summaryJson.strong_supervision[m] # << >> <=> HasSeries(strong_data, m)
                /\ summaryJson.comparison[m] # << >>
                      <=> (HasSeries(weak_data, m) /\ HasSeries(strong_data, m))
                /\ Printed(Msg("summary of", m))
                      <=> (HasSeries(weak_data, m) /\ HasSeries(strong_data, m))
                /\ HasSeries(weak_data, m) =>
                      /\ summaryJson.weak_supervision[m].final_value = FinalOf(weak_data, m)
                      /\ summaryJson.weak_supervision[m].total_iterations
                            = Len(weak_data.dict[m].values)

C5_Witness ==
    /\ pcC = "returned"
    /\ summaryJson # NoFile
    /\ "train_loss_patches/total_loss" \in DOMAIN weak_data.dict
    /\ weak_data.dict["train_loss_patches/total_loss"].values = << >>
    /\ HasSeries(strong_data, "train_loss_patches/total_loss")
    /\ summaryJson.weak_supervision["train_loss_patches/total_loss"] = << >>
    /\ summaryJson.strong_supervision["train_loss_patches/total_loss"] # << >>
    /\ summaryJson.comparison["train_loss_patches/total_loss"] = << >>

\* C6: for every metric with a non-empty series on both sides,
\* absolute_improvement is the strong final value minus the weak final value and
\* relative_improvement_percent is absolute_improvement / weak final * 100, and is
\* 0 when the weak final value is 0 (10, 8: -2 and -20; 20, 25: 5 and 25; 0, 5: 5
\* and 0).
C6_Improvement ==
    summaryJson # NoFile =>
        \A m \in TheFiveMetrics :
            (HasSeries(weak_data, m) /\ HasSeries(strong_data, m)) =>
                LET wf == FinalOf(weak_data, m)
                    sf == FinalOf(strong_data, m)
                    c  == summaryJson.comparison[m]
                    rel == c.relative_improvement_percent
                IN  /\ c.absolute_improvement = sf - wf
                    /\ wf = 0 => rel = << 0, 1 >>
                    /\ wf # 0 => /\ rel[2] > 0
                                 /\ rel[1] * wf = (sf - wf) * 100 * rel[2]
                    /\ (wf = 10 /\ sf = 8) =>
                          c.absolute_improvement = -2 /\ rel = << -20, 1 >>
                    /\ (wf = 20 /\ sf = 25) =>
                          c.absolute_improvement = 5 /\ rel = << 25, 1 >>
                    /\ (wf = 0 /\ sf = 5) =>
                          c.absolute_improvement = 5 /\ rel = << 0, 1 >>

C6_Witness ==
    /\ summaryJson # NoFile
    /\ HasSeries(weak_data, "train_loss_patches/total_loss")
    /\ HasSeries(strong_data, "train_loss_patches/total_loss")
    /\ weak_data.dict["train_loss_patches/total_loss"].values = << 8, 10 >>
    /\ FinalOf(strong_data, "train_loss_patches/total_loss") = 8
    /\ summaryJson.comparison["train_loss_patches/total_loss"].absolute_improvement = -2
    /\ summaryJson.comparison["train_loss_patches/total_loss"].relative_improvement_percent
          = << -20, 1 >>

\* the analysed metrics whose name contains "psnr"
PsnrMetrics == {"train/loss_viewpoint - psnr"}

\* C7: strong_better of a populated comparison is true exactly when
\* absolute_improvement > 0 for a metric whose name contains "psnr" and exactly
\* when absolute_improvement < 0 for every other metric; equal final values give
\* strong_better = false.
C7_StrongBetter ==
    summaryJson # NoFile =>
        \A m \in TheFiveMetrics :
            summaryJson.comparison[m] # << >> =>
                LET c == summaryJson.comparison[m] IN
                /\ m \in PsnrMetrics => (c.strong_better <=> c.absolute_improvement > 0)
                /\ m \notin PsnrMetrics => (c.strong_better <=> c.absolute_improvement < 0)
                /\ FinalOf(weak_data, m) = FinalOf(strong_data, m) => ~c.strong_better

C7_Witness ==
    /\ summaryJson # NoFile
    /\ summaryJson.comparison["train/loss_viewpoint - psnr"] # << >>
    /\ summaryJson.comparison["train/loss_viewpoint - psnr"].absolute_improvement = 5
    /\ summaryJson.comparison["train/loss_viewpoint - psnr"].strong_better
    /\ summaryJson.comparison["train_loss_patches/total_loss"] # << >>
    /\ summaryJson.comparison["train_loss_patches/total_loss"].absolute_improvement = 5
    /\ ~summaryJson.comparison["train_loss_patches/total_loss"].strong_better

----------------------------------------------------------------------------
(* Live Monitor and Metric Log Reader: claims *)

StoppedNotice == "Monitoring stopped by user."
\* what a step taken while the loop runs may do
LoopStep ==
     pcM \in {"poll", "sleep"} =>
          /\ pcM' \in {"poll", "sleep", "stopped"}
          /\ pcM' = "stopped" =>
                /\ MonInterrupt
                /\ stdoutM' = Append(stdoutM, StoppedNotice)
          /\ pcM' # "stopped" => stdoutM' = stdoutM
          /\ (pcM = "poll" /\ pcM' # "poll") => pcM' \in {"sleep", "stopped"}
          /\ (pcM = "sleep" /\ pcM' # "sleep") => pcM' \in {"poll", "stopped"}
          /\ (metrics' # metrics \/ lastTick' # lastTick) =>
                (pcM = "poll" /\ pcM' = "sleep")

\* C8: once the poll loop has started it never stops on its own, whatever the
\* polls find: from a poll or a sleep the monitor only goes on polling and
\* sleeping, or is stopped by a step that is the external interruption, which
\* prints the 'stopped' notice.  Polls are sequential: a poll is followed by the
\* sleep, and the next poll is made only after that sleep has ended.
C8_LoopOnlyStopsOnInterrupt == [][LoopStep]_vars

C8_Witness ==
    /\ pcM = "poll"
    /\ lastTick.kind = "metrics"
    /\ nSamples = MaxSamples

Blanks(n) == [i \in 1..n |-> " "]

AllowList ==
    {"train_loss_patches/total_loss", "train_loss_patches/l1_loss",
     "test/loss_viewpoint - psnr", "total_points"}

\* the name column of the line of each allow-listed metric
ExpectedName(t) ==
    CASE t = "train_loss_patches/total_loss" ->
            << "t", "o", "t", "a", "l", "_", "l", "o", "s", "s" >> \o Blanks(10)
      [] t = "train_loss_patches/l1_loss" ->
            << "l", "1", "_", "l", "o", "s", "s" >> \o Blanks(13)
      [] t = "test/loss_viewpoint - psnr" ->
            << "T", "e", "s", "t", " ", "p", "s", "n", "r" >> \o Blanks(11)
      [] t = "total_points" ->
            << "t", "o", "t", "a", "l", "_", "p", "o", "i", "n", "t", "s" >> \o Blanks(8)

\* the log of a directory can be read
HasLog(d) == tbInstalled /\ dirExists[d] /\ \E r \in RunDirs : mtime[d][r] > 0

\* the run folder holding the most recently modified event file
NewestRun(d) ==
    CHOOSE r \in RunDirs : mtime[d][r] > 0 /\ \A o \in RunDirs : mtime[d][o] <= mtime[d][r]

\* the tags recorded in that folder
RecordedTags(d) == {t \in LoggedTags : Len(scalars[d][NewestRun(d)][t]) > 0}

NewestSeries(d, t) == scalars[d][NewestRun(d)][t]

LineSet(tick) == {tick.lines[i] : i \in 1..Len(tick.lines)}
\* what a poll prints, given the log it reads
TickStep ==
     (pcM = "poll" /\ pcM' = "sleep") =>
          LET shown == IF HasLog(model_dir)
                       THEN AllowList \cap RecordedTags(model_dir) ELSE {}
          IN  IF shown # {}
              THEN /\ lastTick'.kind = "metrics"
                   /\ Len(lastTick'.lines) = Cardinality(shown)
                   /\ LineSet(lastTick') =
                         {[name  |-> ExpectedName(t),
                           value |-> NewestSeries(model_dir, t)
                                        [Len(NewestSeries(model_dir, t))].value,
                           iter  |-> NewestSeries(model_dir, t)
                                        [Len(NewestSeries(model_dir, t))].step] :
                          t \in shown}
              ELSE lastTick' = [kind |-> "notice", lines |-> << >>]

\* C9: every tick prints exactly one of two things: if the log holds an
\* allow-listed metric, one line per allow-listed metric of the log with its
\* display name and the value and step of its last sample, and nothing for any
\* other metric; otherwise the 'not found yet' notice.
C9_TickOutput == [][TickStep]_vars

C9_Witness ==
    /\ pcM = "sleep"
    /\ lastTick.kind = "metrics"
    /\ Len(lastTick.lines) = 1
    /\ lastTick.lines[1].name =
          << "T", "e", "s", "t", " ", "p", "s", "n", "r" >> \o Blanks(11)
    /\ lastTick.lines[1].value = 10
    /\ HasLog(model_dir)
    /\ RecordedTags(model_dir) =
          {"test/loss_viewpoint - psnr", "train/loss_viewpoint - psnr"}

\* every series of the newest run folder of d, as the Comparator's reader returns it
EverySeries(d) ==
    [t \in RecordedTags(d) |->
        [steps  |-> [i \in 1..Len(NewestSeries(d, t)) |-> NewestSeries(d, t)[i].step],
         values |-> [i \in 1..Len(NewestSeries(d, t)) |-> NewestSeries(d, t)[i].value]]]

\* what both readers do for a directory without a readable log, and what the
\* callers do with it
AbsentResultTolerated ==
    /\ (pcC = "main" /\ pcC' = "extracted") =>
          /\ ~HasLog("weak") => weak_data' = None
          /\ ~HasLog("strong") => strong_data' = None
          /\ raisedC' = ""
    /\ (pcC' \in {"done", "returned"} /\ summaryJson' # NoFile) =>
          /\ weak_data'.isNone =>
                \A m \in TheFiveMetrics : summaryJson'.weak_supervision[m] = << >>
          /\ strong_data'.isNone =>
                \A m \in TheFiveMetrics : summaryJson'.strong_supervision[m] = << >>
    /\ pcC' # "raised"
    /\ (pcM = "poll" /\ pcM' = "sleep" /\ ~HasLog(model_dir)) =>
          /\ metrics' = None
          /\ lastTick'.kind = "notice"

\* the Comparator's reader on a directory with a log
CmpReaderLoadsNewest ==
    (pcC = "main" /\ pcC' = "extracted") =>
        /\ HasLog("weak") => weak_data' = Dict(EverySeries("weak"))
        /\ HasLog("strong") => strong_data' = Dict(EverySeries("strong"))
\* both readers as the claim has them
ReadersAsClaimed ==
     /\ AbsentResultTolerated
        /\ CmpReaderLoadsNewest
        /\ (pcM = "poll" /\ pcM' = "sleep" /\ HasLog(model_dir)) =>
              /\ ~metrics'.isNone
              /\ DOMAIN metrics'.dict = RecordedTags(model_dir)

ReadersAsCoded ==
     /\ AbsentResultTolerated
        /\ CmpReaderLoadsNewest
        /\ (pcM = "poll" /\ pcM' = "sleep" /\ HasLog(model_dir)) =>
              /\ ~metrics'.isNone
              /\ DOMAIN metrics'.dict = AllowList \cap RecordedTags(model_dir)
              /\ \A t \in DOMAIN metrics'.dict :
                    LET q == NewestSeries(model_dir, t) IN
                    metrics'.dict[t] = [latest_step  |-> q[Len(q)].step,
                                        latest_value |-> q[Len(q)].value,
                                        total_points |-> Len(q)]

----------------------------------------------------------------------------
(* Run Orchestrator: the interrupted run *)

\* the lines that report an exit code, lines 88-89
ExitCodeLines ==
    {ExitCodeLine(c, code) : c \in Children, code \in ExitCodes \cup {SigTerm}}

ExitStatusReported == \E i \in 1..Len(stdoutO) : stdoutO[i] \in ExitCodeLines

ComparatorInvoked == compareRuns # << >>

Waiting == pcO \in {"wait_weak", "wait_strong"}

\* the handler took an interruption and strong_result was never assigned: the
\* interruption arrived during one of the two waits
InterruptedWhileWaiting ==
    /\ interrupted
    /\ pcO \in {"except", "returned"}
    /\ ~results["strong"].waited

\* one step of an orchestrator run, as C11 has it
InterruptedRunStep ==
    /\ (~interrupted /\ interrupted') => (InterruptedWhileWaiting' <=> Waiting)
    /\ InterruptedWhileWaiting => InterruptedWhileWaiting'
    /\ InterruptedWhileWaiting' => ~ComparatorInvoked' /\ ~ExitStatusReported'
    /\ compareRuns' # compareRuns =>
          /\ ~interrupted /\ ~interrupted'
          /\ \A c \in Children : proc[c].state = "exited" /\ results[c].waited
    /\ interrupted =>
          /\ compareRuns' = compareRuns
          /\ ExitStatusReported' => ExitStatusReported

\* C11: if the interruption arrives while the orchestrator waits for the weak or
\* for the strong child, the Comparator is never invoked in that run and no exit
\* code line is ever printed; the Comparator is started only by a run that has not
\* been interrupted, after both children have exited and both waits have returned,
\* and nothing is started or reported once the interruption has arrived.
C11_InterruptedWaitNoComparator == [][InterruptedRunStep]_vars

C11_Witness ==
    /\ pcO = "returned"
    /\ interrupted
    /\ results["weak"] = Result(1)
    /\ ~results["strong"].waited
    /\ proc["strong"].state = "exited" /\ proc["strong"].code = SigTerm
    /\ \A c \in Children : termRequested[c]
    /\ compareRuns = << >>
    /\ stdoutO[Len(stdoutO)] = "Training interrupted by user."

====
